---- MODULE Spec2Model ----
(***************************************************************************)
(* The event payload decoder of etw.py (class EventConsumer): the record   *)
(* callback _processEvent, the scalar and structure field decoders, the    *)
(* size resolvers and the grow-buffer queries against the tracing          *)
(* subsystem (TDH).  The subsystem's answers are part of each record: its  *)
(* payload bytes, its schema, and the statuses its queries return.         *)
(***************************************************************************)
EXTENDS Integers, Sequences, FiniteSets, TLC

VARIABLES
    task_name_filters,  \* self.task_name_filters
    event_callback,     \* self.event_callback is set (TRUE) or None (FALSE)
    index,              \* self.index: read offset into the payload
    vfield_length,      \* self.vfield_length: <<>> is None, <<n>> an integer
    pc,                 \* position of the consumer thread in _processEvent
    rec,                \* the record being decoded (the callback's argument)
    i,                  \* loop variable of the top-level field loop
    out,                \* the local mapping out (a dict, in insertion order)
    calls,              \* the subsystem queries issued for this record
    steps,              \* per dispatched top-level field: what the decoder did
    recs,               \* the records delivered so far
    results             \* per delivered record: how _processEvent ended

\* class ETW and the trace sessions of the system
VARIABLES
    guids,              \* self.guids: the provider names, in insertion order
    providers,          \* self.providers
    consumers,          \* self.consumers
    ignore_exists_error,\* the argument of ETW.start
    epc,                \* position of the caller in ETW.start and ETW.stop
    g,                  \* loop variable of ETW.start over self.guids
    raised,             \* the exception ETW.start raised to its caller
    sessions,           \* the trace sessions that exist in the system
    starts,             \* per iteration of ETW.start: what happened
    process_thread,     \* per consumer: where its worker thread is in _run
    end_capture,        \* per consumer: self.end_capture is set
    trace_handle        \* per consumer: None, or the trace open or closed

consumer == <<task_name_filters, event_callback, index, vfield_length, pc, rec,
              i, out, calls, steps, recs, results>>

worker == <<process_thread, end_capture, trace_handle>>

lifecycle == <<guids, providers, consumers, ignore_exists_error, epc, g, raised,
               sessions, starts, worker>>

vars == <<consumer, lifecycle>>

-----------------------------------------------------------------------------
(* Bounds of the model *)

MaxFields == 3
MaxPayload == 3
MaxByte == 2
MaxCount == 3
MaxRecords == 2

(* Program constants *)

SizeofIN6_ADDR == 16
Base == 10

None == <<>>
Some(n) == <<n>>

-----------------------------------------------------------------------------
(* Text.  A text is a sequence of characters; characters 0..Base-1 are the *)
(* decimal digits (Base is the radix of int(x, 10)), XChar stands for any  *)
(* other character.  A payload byte b read as a character is the           *)
(* character b; byte 0 is the NUL terminator.                              *)

XChar == Base

IsDigit(c) == c \in 0..(Base - 1)

RECURSIVE FormatDec(_)
FormatDec(n) ==
    IF n < Base THEN <<n>> ELSE FormatDec(n \div Base) \o <<n % Base>>

RECURSIVE DigitsValue(_)
DigitsValue(t) ==
    IF t = <<>> THEN 0
    ELSE Base * DigitsValue(SubSeq(t, 1, Len(t) - 1)) + t[Len(t)]

\* int(text, 10): None stands for the ValueError the caller catches.
ParseInt(t) ==
    IF t # <<>> /\ \A k \in 1..Len(t) : IsDigit(t[k])
    THEN Some(DigitsValue(t))
    ELSE None

\* Position of the first NUL in a byte sequence, 0 when there is none.
FirstNul(b) ==
    IF \E k \in 1..Len(b) : b[k] = 0
    THEN CHOOSE k \in 1..Len(b) : b[k] = 0 /\ \A m \in 1..(k - 1) : b[m] # 0
    ELSE 0

\* The .value of a character buffer: the bytes before the first NUL.
UpToNul(b) == IF FirstNul(b) = 0 THEN b ELSE SubSeq(b, 1, FirstNul(b) - 1)

Lower(s) ==
    CASE s = "DataLength" -> "datalength"
      [] s = "PAYLOADLENGTH" -> "payloadlength"
      [] s = "Data" -> "data"
      [] s = "Id" -> "id"
      [] s = "Addr" -> "addr"
      [] s = "Pair" -> "pair"
      [] s = "Task Name" -> "task name"
      [] s = "Description" -> "description"
      [] OTHER -> s

\* name_field.lower().endswith('length')
EndsWithLength(name) == Lower(name) \in {"datalength", "payloadlength", "length"}

\* task_name.strip().upper()
StripUpper(s) ==
    CASE s = " TaskA " -> "TASKA"
      [] s = "TaskA" -> "TASKA"
      [] s = "taskb" -> "TASKB"
      [] s = "Provider" -> "PROVIDER"
      [] OTHER -> s

-----------------------------------------------------------------------------
(* The dict: a sequence of <<key, value>> pairs with pairwise distinct     *)
(* keys, in insertion order.                                               *)

Keys(d) == [k \in 1..Len(d) |-> d[k][1]]

HasKey(d, key) == \E k \in 1..Len(d) : d[k][1] = key

Get(d, key) == d[CHOOSE k \in 1..Len(d) : d[k][1] = key][2]

\* DictSet with a new key put in front
DictSetFront(d, key, value) ==
    IF HasKey(d, key)
    THEN [k \in 1..Len(d) |-> IF d[k][1] = key THEN <<key, value>> ELSE d[k]]
    ELSE <<<<key, value>>>> \o d

\* d[key] = value: an existing key keeps its place and takes the new value.
DictSet(d, key, value) ==
    IF HasKey(d, key)
    THEN [k \in 1..Len(d) |-> IF d[k][1] = key THEN <<key, value>> ELSE d[k]]
    ELSE Append(d, <<key, value>>)

RECURSIVE DictUpdate(_, _)
DictUpdate(d, e) ==
    IF e = <<>> THEN d
    ELSE DictUpdate(DictSet(d, e[1][1], e[1][2]), Tail(e))

-----------------------------------------------------------------------------
(* Values of the output mapping *)

NoneValue == [tag |-> "None", text |-> <<>>]
TextValue(t) == [tag |-> "str", text |-> t]      \* formatted_data.value, LPWSTR
BytesValue(t) == [tag |-> "bytes", text |-> t]   \* buf.value after recovery
HeaderValue(r) == [tag |-> "EventHeader", text |-> <<r.EventId>>]
StrValue(s) == [tag |-> s, text |-> <<>>]

-----------------------------------------------------------------------------
(* The tracing subsystem.  A fault makes one query of one field return the *)
(* given status instead of its natural one.                                *)

NoFault == [cap |-> "none", at |-> 0, phase |-> "probe", status |-> "ERROR_SUCCESS"]

Status(r, cap, at, phase, natural) ==
    IF r.fault.cap = cap /\ r.fault.at = at /\ r.fault.phase = phase
    THEN r.fault.status
    ELSE natural

\* One query of the subsystem: buffer is the size of the output buffer handed
\* in (0 when none is), size the required size the query wrote back.
Query(cap, at, phase, len, remaining, status, buffer, size) ==
    [cap |-> cap, at |-> at, phase |-> phase, len |-> len,
     remaining |-> remaining, status |-> status, buffer |-> buffer,
     size |-> size]

\* a query that takes no output buffer
Call(cap, at, phase, len, remaining, status) ==
    Query(cap, at, phase, len, remaining, status, 0, 0)

\* buffer_size, map_size and formatted_data_size as the subsystem writes them
InfoBufferSize(r) == Len(r.props) + 1
MapBufferSize(r, at) == at
FormatBufferSize(f) == 2 * (Len(f.text) + 1)

\* ct.c_ushort(n).value
UShort(n) == n % 65536

\* TdhFormatProperty on the unread bytes b: the status, the bytes consumed
\* and the formatted text.
TdhFormatProperty(in_type, out_type, map_info, property_length, b) ==
    CASE in_type = "UINT8" ->
           [status |-> "ERROR_SUCCESS", consumed |-> 1,
            text |-> IF map_info THEN <<XChar>>
                     ELSE IF out_type = "HEXINT8" THEN <<0, XChar>> \o FormatDec(b[1])
                     ELSE FormatDec(b[1])]
      [] in_type = "UNICODESTRING" /\ property_length = 0 ->
           [status |-> "ERROR_SUCCESS",
            consumed |-> IF FirstNul(b) = 0 THEN Len(b) ELSE FirstNul(b),
            text |-> UpToNul(b)]
      [] OTHER ->
           IF property_length > Len(b)
           THEN [status |-> "ERROR_EVT_INVALID_EVENT_DATA", consumed |-> 0, text |-> <<>>]
           ELSE [status |-> "ERROR_SUCCESS", consumed |-> property_length,
                 text |-> IF in_type = "BINARY"
                          THEN <<0, XChar>> \o SubSeq(b, 1, property_length)
                          ELSE UpToNul(SubSeq(b, 1, property_length))]

\* tdh.TDH_CONVERTER_LOOKUP[out_type](data), where the table has an entry
ConverterTypes == {"UNSIGNEDBYTE"}
Convert(out_type, data) ==
    IF out_type \in ConverterTypes THEN [data EXCEPT !.tag = "converted"] ELSE data

-----------------------------------------------------------------------------
\* getEventInformation with ERROR_NOT_FOUND raised like any other failure
getEventInformationStrict(r) ==
    LET probe == Status(r, "info", 0, "probe", "ERROR_INSUFFICIENT_BUFFER")
        fill == Status(r, "info", 0, "fill", "ERROR_SUCCESS")
        second == probe = "ERROR_INSUFFICIENT_BUFFER"
        status == IF second THEN fill ELSE probe
        log == <<Query("info", 0, "probe", 0, 0, probe, 0, InfoBufferSize(r))>>
               \o (IF second THEN <<Query("info", 0, "fill", 0, 0, fill,
                                  InfoBufferSize(r), InfoBufferSize(r))>>
                   ELSE <<>>)
    IN  [exc |-> IF status = "ERROR_SUCCESS" THEN "None" ELSE "WinError",
         info |-> status = "ERROR_SUCCESS",
         calls |-> log]

(* EventConsumer._getEventInformation *)

getEventInformation(r) ==
    LET probe == Status(r, "info", 0, "probe", "ERROR_INSUFFICIENT_BUFFER")
        fill == Status(r, "info", 0, "fill", "ERROR_SUCCESS")
        second == probe = "ERROR_INSUFFICIENT_BUFFER"
        status == IF second THEN fill ELSE probe
        log == <<Query("info", 0, "probe", 0, 0, probe, 0, InfoBufferSize(r))>>
               \o (IF second THEN <<Query("info", 0, "fill", 0, 0, fill,
                                  InfoBufferSize(r), InfoBufferSize(r))>>
                   ELSE <<>>)
    IN  [exc |-> IF status \in {"ERROR_NOT_FOUND", "ERROR_SUCCESS"}
                 THEN "None" ELSE "WinError",
         info |-> status = "ERROR_SUCCESS",
         calls |-> log]

(* EventConsumer._getMapInfo *)

getMapInfo(r, at) ==
    LET p == r.props[at]
        probe == Status(r, "map", at, "probe",
                        IF p.hasMap THEN "ERROR_INSUFFICIENT_BUFFER"
                        ELSE "ERROR_NOT_FOUND")
        fill == Status(r, "map", at, "fill", "ERROR_SUCCESS")
        second == probe = "ERROR_INSUFFICIENT_BUFFER"
        status == IF second THEN fill ELSE probe
        log == <<Query("map", at, "probe", 0, 0, probe, 0,
                     MapBufferSize(r, at))>>
               \o (IF second THEN <<Query("map", at, "fill", 0, 0, fill,
                                  MapBufferSize(r, at), MapBufferSize(r, at))>>
                   ELSE <<>>)
    IN  [exc |-> IF status \in {"ERROR_NOT_FOUND", "ERROR_SUCCESS"}
                 THEN "None" ELSE "WinError",
         map_info |-> status = "ERROR_SUCCESS",
         calls |-> log]

(* EventConsumer._getPropertyLength *)

getPropertyLength(r, at) ==
    LET p == r.props[at]
        size == Status(r, "size", at, "probe", "ERROR_SUCCESS")
        prop == Status(r, "prop", at, "probe", "ERROR_SUCCESS")
    IN  IF "PropertyParamLength" \in p.flags
        THEN IF size # "ERROR_SUCCESS"
             THEN [exc |-> "WinError", length |-> 0,
                   calls |-> <<Call("size", at, "probe", 0, 0, size)>>]
             ELSE IF prop # "ERROR_SUCCESS"
             THEN [exc |-> "WinError", length |-> 0,
                   calls |-> <<Call("size", at, "probe", 0, 0, size),
                               Call("prop", at, "probe", 0, 0, prop)>>]
             ELSE [exc |-> "None", length |-> r.refValue,
                   calls |-> <<Call("size", at, "probe", 0, 0, size),
                               Call("prop", at, "probe", 0, 0, prop)>>]
        ELSE IF p.inType = "BINARY" /\ p.outType = "IPV6"
        THEN [exc |-> "None", length |-> SizeofIN6_ADDR, calls |-> <<>>]
        ELSE [exc |-> "None", length |-> p.length, calls |-> <<>>]

(* EventConsumer._getArraySize *)

getArraySize(r, at) ==
    LET p == r.props[at]
    IN  IF "PropertyParamCount" \in p.flags
        THEN \* info + NameOffset: a ctypes pointer plus an int
             [exc |-> "TypeError", count |-> 0]
        ELSE IF "PropertyParamFixedCount" \in p.flags
        THEN [exc |-> "ETWException", count |-> 0]
        ELSE [exc |-> "None", count |-> p.count]

\* handleEvtInvalidEvtData with the size of buf reported as consumed
handleEvtInvalidEvtDataBufSize(b, user_data_remaining) ==
    [consumed |-> UShort(user_data_remaining + 2),
     buf |-> SubSeq(b, 1, user_data_remaining) \o <<0, 0>>]

(* EventConsumer._handleEvtInvalidEvtData: the bytes consumed and buf *)

handleEvtInvalidEvtData(b, user_data_remaining) ==
    [consumed |-> UShort(user_data_remaining),
     buf |-> SubSeq(b, 1, user_data_remaining) \o <<0, 0>>]

-----------------------------------------------------------------------------
(* EventConsumer._unpackSimpleType, on the cursor (idx, vf).  kind tells   *)
(* which return was taken.  The function is modelled in the order of the   *)
(* source: the resolvers, the pending length and the remaining bytes, the  *)
(* two formatter calls, and the handling of their status.                  *)

Raise(e, idx, vf, log) ==
    [exc |-> e, ret |-> <<>>, index |-> idx, vfield |-> vf, calls |-> log,
     kind |-> "raise"]

\* unpackStatus with every status but success raised
unpackStatusStrict(r, at, idx, vf, log, f, status, rcv) ==
    LET p == r.props[at]
    IN  IF status # "ERROR_SUCCESS"
        THEN Raise("WinError", idx, vf, log)
        ELSE [exc |-> "None",
              ret |-> <<<<p.name, Convert(p.outType, TextValue(f.text))>>>>,
              index |-> idx + f.consumed,
              vfield |-> IF EndsWithLength(p.name) THEN ParseInt(f.text) ELSE vf,
              calls |-> log,
              kind |-> "formatted"]

\* unpackStatus with the pending length written whatever the field's name
unpackStatusAnyName(r, at, idx, vf, log, f, status, rcv) ==
    LET p == r.props[at]
        ok == status = "ERROR_SUCCESS"
        data == IF ok THEN TextValue(f.text) ELSE BytesValue(UpToNul(rcv.buf))
    IN  IF status \notin {"ERROR_SUCCESS", "ERROR_EVT_INVALID_EVENT_DATA"}
        THEN Raise("WinError", idx, vf, log)
        ELSE [exc |-> "None",
              ret |-> <<<<p.name, Convert(p.outType, data)>>>>,
              index |-> idx + (IF ok THEN f.consumed ELSE rcv.consumed),
              vfield |-> ParseInt(data.text),
              calls |-> log,
              kind |-> IF ok THEN "formatted" ELSE "fragment"]

\* unpackStatus with every failure status recovered like invalid event data
unpackStatusLenient(r, at, idx, vf, log, f, status, rcv) ==
    LET p == r.props[at]
        ok == status = "ERROR_SUCCESS"
        data == IF ok THEN TextValue(f.text) ELSE BytesValue(UpToNul(rcv.buf))
    IN  [exc |-> "None",
         ret |-> <<<<p.name, Convert(p.outType, data)>>>>,
         index |-> idx + (IF ok THEN f.consumed ELSE rcv.consumed),
         vfield |-> IF EndsWithLength(p.name) THEN ParseInt(data.text) ELSE vf,
         calls |-> log,
         kind |-> IF ok THEN "formatted" ELSE "fragment"]

\* lines 507-529: the status, the cursor, the pending length, the value
unpackStatus(r, at, idx, vf, log, f, status, rcv) ==
    LET p == r.props[at]
        ok == status = "ERROR_SUCCESS"
        data == IF ok THEN TextValue(f.text) ELSE BytesValue(UpToNul(rcv.buf))
    IN  IF status \notin {"ERROR_SUCCESS", "ERROR_EVT_INVALID_EVENT_DATA"}
        THEN Raise("WinError", idx, vf, log)
        ELSE [exc |-> "None",
              ret |-> <<<<p.name, Convert(p.outType, data)>>>>,
              index |-> idx + (IF ok THEN f.consumed ELSE rcv.consumed),
              vfield |-> IF EndsWithLength(p.name) THEN ParseInt(data.text)
                         ELSE vf,
              calls |-> log,
              kind |-> IF ok THEN "formatted" ELSE "fragment"]

\* lines 481-505: the probe call and, on ERROR_INSUFFICIENT_BUFFER, the
\* call with a buffer
unpackFill(r, at, idx, vf, log, len, remaining, b, f, fill) ==
    unpackStatus(r, at, idx, vf,
                 Append(log, Query("fmt", at, "fill", len, remaining, fill,
                                   FormatBufferSize(f), FormatBufferSize(f))),
                 f, fill, handleEvtInvalidEvtData(b, remaining))

\* unpackCalls with the second call made whatever the probe reported
unpackCallsAlways(r, at, idx, vf, log, len, remaining, b, f, probe) ==
    unpackFill(r, at, idx, vf,
               Append(log, Query("fmt", at, "probe", len, remaining, probe,
                                 0, FormatBufferSize(f))),
               len, remaining, b, f,
               Status(r, "fmt", at, "fill", f.status))

unpackCalls(r, at, idx, vf, log, len, remaining, b, f, probe) ==
    IF probe = "ERROR_INSUFFICIENT_BUFFER"
    THEN unpackFill(r, at, idx, vf,
                    Append(log, Query("fmt", at, "probe", len, remaining, probe,
                                      0, FormatBufferSize(f))),
                    len, remaining, b, f,
                    Status(r, "fmt", at, "fill", f.status))
    ELSE unpackStatus(r, at, idx, vf,
                      Append(log, Query("fmt", at, "probe", len, remaining, probe,
                                      0, FormatBufferSize(f))),
                      f, probe, handleEvtInvalidEvtData(b, remaining))

unpackFormat(r, at, idx, vf, log, len, remaining, b, f) ==
    unpackCalls(r, at, idx, vf, log, len, remaining, b, f,
                Status(r, "fmt", at, "probe",
                       IF f.status = "ERROR_SUCCESS"
                       THEN "ERROR_INSUFFICIENT_BUFFER" ELSE f.status))

\* unpackLength with the pending 0 left in place by an absent field
unpackLengthKeepPending(r, at, idx, vf, m, log, property_length) ==
    LET p == r.props[at]
        user_data_remaining == Len(r.UserData) - idx
        b == SubSeq(r.UserData, idx + 1, Len(r.UserData))
    IN  IF property_length = 0 /\ vf # None /\ vf = Some(0)
        THEN [exc |-> "None", ret |-> <<<<p.name, NoneValue>>>>, index |-> idx,
              vfield |-> vf, calls |-> log, kind |-> "absent"]
        ELSE IF user_data_remaining <= 0
        THEN [exc |-> "None", ret |-> <<>>, index |-> idx, vfield |-> vf,
              calls |-> log, kind |-> "skip"]
        ELSE IF property_length = 0 /\ vf # None
        THEN unpackFormat(r, at, idx, vf, log, UShort(vf[1]),
                          user_data_remaining, b,
                          TdhFormatProperty(p.inType, p.outType, m.map_info,
                                            UShort(vf[1]), b))
        ELSE unpackFormat(r, at, idx, vf, log, UShort(property_length),
                          user_data_remaining, b,
                          TdhFormatProperty(p.inType, p.outType, m.map_info,
                                            UShort(property_length), b))

\* unpackLength with a non-zero pending length never used
unpackLengthOwnLength(r, at, idx, vf, m, log, property_length) ==
    LET p == r.props[at]
        user_data_remaining == Len(r.UserData) - idx
        b == SubSeq(r.UserData, idx + 1, Len(r.UserData))
    IN  IF property_length = 0 /\ vf # None /\ vf = Some(0)
        THEN [exc |-> "None", ret |-> <<<<p.name, NoneValue>>>>, index |-> idx,
              vfield |-> None, calls |-> log, kind |-> "absent"]
        ELSE IF user_data_remaining <= 0
        THEN [exc |-> "None", ret |-> <<>>, index |-> idx, vfield |-> vf,
              calls |-> log, kind |-> "skip"]
        ELSE unpackFormat(r, at, idx, vf, log, UShort(property_length),
                          user_data_remaining, b,
                          TdhFormatProperty(p.inType, p.outType, m.map_info,
                                            UShort(property_length), b))

\* lines 454-473: the pending length, the unread bytes
unpackLength(r, at, idx, vf, m, log, property_length) ==
    LET p == r.props[at]
        user_data_remaining == Len(r.UserData) - idx
        b == SubSeq(r.UserData, idx + 1, Len(r.UserData))
    IN  IF property_length = 0 /\ vf # None /\ vf = Some(0)
        THEN [exc |-> "None", ret |-> <<<<p.name, NoneValue>>>>, index |-> idx,
              vfield |-> None, calls |-> log, kind |-> "absent"]
        ELSE IF user_data_remaining <= 0
        THEN [exc |-> "None", ret |-> <<>>, index |-> idx, vfield |-> vf,
              calls |-> log, kind |-> "skip"]
        ELSE IF property_length = 0 /\ vf # None
        THEN unpackFormat(r, at, idx, vf, log, UShort(vf[1]),
                          user_data_remaining, b,
                          TdhFormatProperty(p.inType, p.outType, m.map_info,
                                            UShort(vf[1]), b))
        ELSE unpackFormat(r, at, idx, vf, log, UShort(property_length),
                          user_data_remaining, b,
                          TdhFormatProperty(p.inType, p.outType, m.map_info,
                                            UShort(property_length), b))

\* lines 439-447: the map and the length of the property
unpackResolved(r, at, idx, vf, m, pl) ==
    IF m.exc # "None" THEN Raise(m.exc, idx, vf, m.calls)
    ELSE IF pl.exc # "None" THEN Raise(pl.exc, idx, vf, m.calls \o pl.calls)
    ELSE unpackLength(r, at, idx, vf, m, m.calls \o pl.calls, pl.length)

unpackSimpleType(r, at, idx, vf) ==
    unpackResolved(r, at, idx, vf, getMapInfo(r, at), getPropertyLength(r, at))

-----------------------------------------------------------------------------
(* EventConsumer._unpackComplexType.  Members are indexed from 1 in the    *)
(* model: structStart is StructStartIndex + 1.  decoded lists the          *)
(* <<element, member>> pairs handed to _unpackSimpleType, in order.        *)

RECURSIVE ComplexLoop(_, _, _, _, _, _)

\* lines 557-561: key, value = <dict> iterates the keys and needs exactly two
ComplexMember(r, at, array_size, e, j, st, res) ==
    IF res.exc # "None"
    THEN [exc |-> res.exc, ret |-> <<>>, index |-> res.index,
          vfield |-> res.vfield, calls |-> st.calls \o res.calls,
          decoded |-> Append(st.decoded, <<e, j>>)]
    ELSE IF Len(res.ret) # 2
    THEN [exc |-> "ValueError", ret |-> <<>>, index |-> res.index,
          vfield |-> res.vfield, calls |-> st.calls \o res.calls,
          decoded |-> Append(st.decoded, <<e, j>>)]
    ELSE ComplexLoop(r, at, array_size, e, j + 1,
             [exc |-> "None",
              ret |-> DictSet(st.ret, res.ret[1][1], StrValue(res.ret[2][1])),
              index |-> res.index, vfield |-> res.vfield,
              calls |-> st.calls \o res.calls,
              decoded |-> Append(st.decoded, <<e, j>>)])

\* lines 547-551: for i in range(array_size): for j in range(start, last)
ComplexLoop(r, at, array_size, e, j, st) ==
    IF e > array_size THEN st
    ELSE IF j >= r.props[at].structStart + r.props[at].numMembers
    THEN ComplexLoop(r, at, array_size, e + 1, r.props[at].structStart, st)
    ELSE ComplexMember(r, at, array_size, e, j, st,
                       unpackSimpleType(r, j, st.index, st.vfield))

ComplexArray(r, at, idx, vf, a) ==
    IF a.exc # "None"
    THEN [exc |-> a.exc, ret |-> <<>>, index |-> idx, vfield |-> vf,
          calls |-> <<>>, decoded |-> <<>>]
    ELSE ComplexLoop(r, at, a.count, 1, r.props[at].structStart,
                     [exc |-> "None", ret |-> <<>>, index |-> idx,
                      vfield |-> vf, calls |-> <<>>, decoded |-> <<>>])

unpackComplexType(r, at, idx, vf) ==
    ComplexArray(r, at, idx, vf, getArraySize(r, at))

-----------------------------------------------------------------------------
(* The records the event pump delivers *)

Prop(name, flags, in_type, out_type, length) ==
    [name |-> name, flags |-> flags, inType |-> in_type, outType |-> out_type,
     length |-> length, count |-> 1, hasMap |-> FALSE, structStart |-> 0,
     numMembers |-> 0]

LenDec == Prop("DataLength", {}, "UINT8", "UNSIGNEDBYTE", 1)
LenHex == Prop("PAYLOADLENGTH", {}, "UINT8", "HEXINT8", 1)
VarStr == Prop("Data", {}, "UNICODESTRING", "STRING", 0)
FixBin == Prop("Id", {}, "BINARY", "HEXBINARY", 2)
MapInt == [Prop("Id", {}, "UINT8", "STRING", 1) EXCEPT !.hasMap = TRUE]
RefBin == Prop("Data", {"PropertyParamLength"}, "BINARY", "HEXBINARY", 0)

Struct(flags, count, start, members) ==
    [Prop("Pair", flags \cup {"PropertyStruct"}, "NULL", "NULL", 0)
       EXCEPT !.count = count, !.structStart = start, !.numMembers = members]

Schemas(props, n) == UNION {[1..k -> props] : k \in 0..n}

Payloads(n) == UNION {[1..k -> 0..MaxByte] : k \in 0..n}

Rec(props, top, payload) ==
    [props |-> props, TopLevelPropertyCount |-> top, UserData |-> payload,
     UserDataNull |-> FALSE, Is32Bit |-> FALSE, TaskNameOffset |-> 1,
     TaskName |-> " TaskA ", ProviderName |-> "Provider", EventMessage |-> "msg",
     EventId |-> 1, refValue |-> 0, fault |-> NoFault]

\* scalar fields only, every schema over the core descriptors
ScalarRecords ==
    {Rec(s, Len(s), b) : s \in Schemas({LenDec, VarStr, FixBin}, MaxFields),
                         b \in Payloads(MaxPayload)}

\* a field whose name ends in LENGTH and whose value is no decimal numeral
HexRecords ==
    {Rec(<<l>> \o s, 1 + Len(s), b) :
        l \in {LenHex, LenDec}, s \in Schemas({LenHex, VarStr}, MaxFields - 2),
        b \in Payloads(MaxPayload)}

\* one structure field followed by its members
StructRecords ==
    {Rec(<<Struct({}, c, 2, n)>> \o m, 1, b) :
        c \in 0..MaxCount, n \in 0..(MaxFields - 1),
        m \in [1..(MaxFields - 1) -> {LenDec, VarStr}],
        b \in Payloads(MaxPayload - 1)
              \cup {[k \in 1..(MaxCount * (MaxFields - 1)) |-> 1]}}

\* a length-by-reference field after fields that do not set the pending length
RefRecords ==
    {[Rec(s \o <<RefBin>>, Len(s) + 1, b) EXCEPT !.refValue = v] :
        s \in Schemas({MapInt, FixBin}, MaxFields - 1),
        b \in Payloads(MaxPayload), v \in 0..MaxByte}

\* a structure field dispatched after a scalar field took the whole payload
TailStructRecords ==
    {Rec(<<LenDec, Struct({}, c, 3, 1), LenDec>>, 2, <<b>>) :
        c \in 1..(MaxCount - 1), b \in 0..MaxByte}

CountFlags == SUBSET {"PropertyParamCount", "PropertyParamFixedCount"}
LengthFlags == SUBSET {"PropertyParamLength"}

FullPayload == [k \in 1..MaxPayload |-> 1]

\* every combination of the count and length flags, on a scalar and on a
\* structure field
FlagRecords ==
    {[Rec(<<[Prop("Addr", cf \cup lf, t[1], t[2], n) EXCEPT !.count = 2]>>,
          1, FullPayload) EXCEPT !.refValue = v] :
        cf \in CountFlags, lf \in LengthFlags,
        t \in {<<"UINT8", "UNSIGNEDBYTE">>, <<"BINARY", "IPV6">>,
               <<"BINARY", "HEXBINARY">>, <<"UNICODESTRING", "STRING">>},
        n \in 0..2, v \in 0..MaxByte}
    \cup
    {Rec(<<Struct(cf \cup lf, 1, 2, 1), VarStr>>, 1, FullPayload) :
        cf \in CountFlags, lf \in LengthFlags}

Faults ==
    {[cap |-> c, at |-> a, phase |-> ph, status |-> st] :
        c \in {"info", "map", "size", "prop", "fmt"}, a \in 0..MaxFields,
        ph \in {"probe", "fill"},
        st \in {"ERROR_NOT_FOUND", "ERROR_INVALID_PARAMETER",
                "ERROR_EVT_INVALID_EVENT_DATA", "ERROR_INSUFFICIENT_BUFFER"}}

\* one schema with a length field, a mapped field and a length-by-reference
\* field, under every single fault
FaultRecords ==
    {[Rec(<<LenDec, MapInt, RefBin>>, 3, b) EXCEPT !.fault = f, !.refValue = 1] :
        f \in Faults \cup {NoFault},
        b \in {FullPayload, SubSeq(FullPayload, 1, 1)}}

\* task names, the provider-name fallback and the absent payload
HeaderRecords ==
    {[Rec(s, Len(s), b) EXCEPT !.TaskNameOffset = t[1], !.TaskName = t[2],
                               !.Is32Bit = t[3], !.UserDataNull = (b = <<>>)] :
        s \in Schemas({LenDec, VarStr}, 2), b \in Payloads(1),
        t \in {<<1, " TaskA ", FALSE>>, <<1, "taskb", TRUE>>, <<0, "", FALSE>>}}

\* payload fields named like the fixed keys of the output mapping
KeyRecords ==
    {Rec(s, Len(s), b) :
        s \in Schemas({Prop("Task Name", {}, "UNICODESTRING", "STRING", 0),
                       Prop("Description", {}, "UINT8", "UNSIGNEDBYTE", 1),
                       Prop("EventHeader", {}, "UINT8", "UNSIGNEDBYTE", 1)}, 2),
        b \in Payloads(2)}

Records ==
    ScalarRecords \cup HexRecords \cup StructRecords \cup RefRecords
    \cup TailStructRecords
    \cup FlagRecords
    \cup FaultRecords \cup HeaderRecords \cup KeyRecords

FollowUps == {Rec(<<VarStr, VarStr>>, 2, FullPayload)}

Filters == {{}, {"TASKA"}, {" TaskA "}, {"taskb", "PROVIDER"}}

-----------------------------------------------------------------------------
(* No ETW object: the consumer was made directly *)
NoETW ==
    /\ guids = <<>>
    /\ providers = <<>>
    /\ consumers = <<>>
    /\ ignore_exists_error = TRUE
    /\ epc = "none"
    /\ g = 0
    /\ raised = "None"
    /\ sessions = {}
    /\ starts = <<>>
    /\ process_thread = <<>>
    /\ end_capture = <<>>
    /\ trace_handle = <<>>

-----------------------------------------------------------------------------
(* EventConsumer.__init__ *)

Init ==
    /\ task_name_filters \in Filters
    /\ event_callback \in BOOLEAN
    /\ index = 0
    /\ vfield_length = None
    /\ pc = "idle"
    /\ rec = Rec(<<>>, 0, <<>>)
    /\ i = 0
    /\ out = <<>>
    /\ calls = <<>>
    /\ steps = <<>>
    /\ recs = <<>>
    /\ results = <<>>
    /\ NoETW

\* what the pump may deliver to this consumer
Deliverable ==
    IF recs # <<>> THEN {rec} \cup FollowUps
    ELSE IF task_name_filters = {} /\ event_callback THEN Records
    ELSE HeaderRecords

\* TaskNameOf without strip().upper()
TaskNameOfRaw(r) ==
    IF r.TaskNameOffset = 0 THEN r.ProviderName ELSE r.TaskName

TaskNameOf(r) ==
    StripUpper(IF r.TaskNameOffset = 0 THEN r.ProviderName ELSE r.TaskName)

Result(how, exc, arg) == [how |-> how, exc |-> exc, arg |-> arg]

\* _processEvent is left, by return or by an exception: its locals are gone
Leave(res) ==
    /\ results' = Append(results, res)
    /\ pc' = "idle"
    /\ i' = 0
    /\ out' = <<>>

\* ProcessEventInfo without the reset of the cursor
ProcessEventInfoNoReset(r, e, task_name) ==
        /\ pc = "idle"
        /\ Len(recs) < MaxRecords
        /\ rec' = r
        /\ recs' = Append(recs, r)
        /\ calls' = e.calls
        /\ steps' = <<>>
        /\ UNCHANGED <<lifecycle, task_name_filters, event_callback>>
        /\ IF e.exc # "None"
           THEN Leave(Result("raised", e.exc, <<>>))
                /\ UNCHANGED <<index, vfield_length>>
           ELSE IF ~e.info
           THEN Leave(Result("skipped", "None", <<>>))
                /\ UNCHANGED <<index, vfield_length>>
           ELSE IF task_name_filters # {} /\ task_name \notin task_name_filters
           THEN Leave(Result("filtered", "None", <<>>))
                /\ UNCHANGED <<index, vfield_length>>
           ELSE /\ out' = <<<<"EventHeader", HeaderValue(r)>>>>
                /\ UNCHANGED <<index, vfield_length>>
                /\ i' = 1
                /\ pc' = "loop"
                /\ UNCHANGED results

\* ProcessEventInfo with the cursor reset before the filter is applied
ProcessEventInfoResetFirst(r, e, task_name) ==
        /\ pc = "idle"
        /\ Len(recs) < MaxRecords
        /\ rec' = r
        /\ recs' = Append(recs, r)
        /\ calls' = e.calls
        /\ steps' = <<>>
        /\ UNCHANGED <<lifecycle, task_name_filters, event_callback>>
        /\ IF e.exc # "None"
           THEN Leave(Result("raised", e.exc, <<>>))
                /\ UNCHANGED <<index, vfield_length>>
           ELSE IF ~e.info
           THEN Leave(Result("skipped", "None", <<>>))
                /\ UNCHANGED <<index, vfield_length>>
           ELSE IF task_name_filters # {} /\ task_name \notin task_name_filters
           THEN Leave(Result("filtered", "None", <<>>))
                /\ index' = 0
                /\ vfield_length' = None
           ELSE /\ out' = <<<<"EventHeader", HeaderValue(r)>>>>
                /\ index' = 0
                /\ vfield_length' = None
                /\ i' = 1
                /\ pc' = "loop"
                /\ UNCHANGED results

(* EventConsumer._processEvent, lines 575-627: metadata, task name, filter,  *)
(* header, cursor reset                                                      *)
ProcessEventInfo(r, e, task_name) ==
        /\ pc = "idle"
        /\ Len(recs) < MaxRecords
        /\ rec' = r
        /\ recs' = Append(recs, r)
        /\ calls' = e.calls
        /\ steps' = <<>>
        /\ UNCHANGED <<lifecycle, task_name_filters, event_callback>>
        /\ IF e.exc # "None"
           THEN Leave(Result("raised", e.exc, <<>>))
                /\ UNCHANGED <<index, vfield_length>>
           ELSE IF ~e.info
           THEN Leave(Result("skipped", "None", <<>>))
                /\ UNCHANGED <<index, vfield_length>>
           ELSE IF task_name_filters # {} /\ task_name \notin task_name_filters
           THEN Leave(Result("filtered", "None", <<>>))
                /\ UNCHANGED <<index, vfield_length>>
           ELSE /\ out' = <<<<"EventHeader", HeaderValue(r)>>>>
                /\ index' = 0
                /\ vfield_length' = None
                /\ i' = 1
                /\ pc' = "loop"
                /\ UNCHANGED results

ProcessEventBegin(r) ==
    ProcessEventInfo(r, getEventInformation(r), TaskNameOf(r))

\* AtEndOfUserData with a null UserData equal to nothing
AtEndOfUserDataNotNull(r) == ~r.UserDataNull /\ Len(r.UserData) = 0

\* user_data == end_of_user_data, both computed once before the loop
AtEndOfUserData(r) ==
    LET user_data == IF r.UserDataNull THEN 0 ELSE 4096
        end_of_user_data == user_data + Len(r.UserData)
    IN  user_data = end_of_user_data

Step(at, kind, idx0, vf0, idx1, vf1, decoded) ==
    [at |-> at, kind |-> kind, index0 |-> idx0, vfield0 |-> vf0,
     index1 |-> idx1, vfield1 |-> vf1, decoded |-> decoded]

(* the for loop has run through range(TopLevelPropertyCount) *)
LoopExit ==
    /\ pc = "loop"
    /\ i > rec.TopLevelPropertyCount
    /\ pc' = "finish"
    /\ UNCHANGED <<lifecycle, task_name_filters, event_callback, index, vfield_length, rec,
                   i, out, calls, steps, recs, results>>

(* lines 632-633: break *)
LoopBreak ==
    /\ pc = "loop"
    /\ i <= rec.TopLevelPropertyCount
    /\ AtEndOfUserData(rec)
    /\ pc' = "finish"
    /\ UNCHANGED <<lifecycle, task_name_filters, event_callback, index, vfield_length, rec,
                   i, out, calls, steps, recs, results>>

\* the effect of one decoded top-level field on self, out and the loop
FieldDone(res, kind, decoded) ==
    /\ index' = res.index
    /\ vfield_length' = res.vfield
    /\ calls' = calls \o res.calls
    /\ steps' = Append(steps, Step(i, kind, index, vfield_length, res.index,
                                   res.vfield, decoded))
    /\ UNCHANGED <<lifecycle, task_name_filters, event_callback, rec, recs>>
    /\ IF res.exc # "None"
       THEN Leave(Result("raised", res.exc, <<>>))
       ELSE /\ out' = DictUpdate(out, res.ret)
            /\ i' = i + 1
            /\ UNCHANGED <<pc, results>>

SimpleDone(res) == FieldDone(res, res.kind, <<>>)

ComplexDone(res) ==
    FieldDone(res, IF res.exc # "None" THEN "raise" ELSE "struct", res.decoded)

(* line 640: out.update(self._unpackSimpleType(...)) *)
LoopSimple ==
    /\ pc = "loop"
    /\ i <= rec.TopLevelPropertyCount
    /\ ~AtEndOfUserData(rec)
    /\ "PropertyStruct" \notin rec.props[i].flags
    /\ SimpleDone(unpackSimpleType(rec, i, index, vfield_length))

(* lines 636-638: out.update(self._unpackComplexType(...)); continue *)
LoopComplex ==
    /\ pc = "loop"
    /\ i <= rec.TopLevelPropertyCount
    /\ ~AtEndOfUserData(rec)
    /\ "PropertyStruct" \in rec.props[i].flags
    /\ ComplexDone(unpackComplexType(rec, i, index, vfield_length))

(* lines 642-650: the fixed keys and the callback *)
ProcessEventEnd ==
    LET out1 == DictSet(out, "Description", StrValue(rec.EventMessage))
        out2 == DictSet(out1, "Task Name", StrValue(TaskNameOf(rec)))
    IN  /\ pc = "finish"
        /\ IF event_callback
           THEN Leave(Result("delivered", "None", <<rec.EventId, out2>>))
           ELSE Leave(Result("returned", "None", <<>>))
        /\ UNCHANGED <<lifecycle, task_name_filters, event_callback, index, vfield_length,
                       rec, calls, steps, recs>>

Next ==
    \/ \E r \in Deliverable : ProcessEventBegin(r)
    \/ LoopExit
    \/ LoopBreak
    \/ LoopSimple
    \/ LoopComplex
    \/ ProcessEventEnd

Spec == Init /\ [][Next]_vars

-----------------------------------------------------------------------------
(* class ETW: __init__, add_provider and start, with EventProvider.start   *)
(* and EventConsumer.start.  A session name is the provider's name.        *)

MaxProviders == 2
SessionNames == {"s1", "s2", "s3"}

\* the statuses of StartTraceW and EnableTraceEx2
StartTraceW(name) ==
    IF name \in sessions THEN {"ERROR_ALREADY_EXISTS"}
    ELSE {"ERROR_SUCCESS", "ERROR_ACCESS_DENIED"}

EnableTraceEx2 == {"ERROR_SUCCESS", "ERROR_ACCESS_DENIED"}

\* ct.GetLastError() after a call that returned status: the call set it, or
\* left it alone
GetLastError(status) == {status, "ERROR_SUCCESS"}

(* EventProvider.start: st and en are the statuses of the two calls, le is  *)
(* the last error ct.WinError() reads                                       *)
EventProviderStart(st, en, le) ==
    IF st # "ERROR_SUCCESS"
    THEN [exc |-> "WindowsError", code |-> le, created |-> FALSE]
    ELSE IF en # "ERROR_SUCCESS"
    THEN [exc |-> "WindowsError", code |-> le, created |-> TRUE]
    ELSE [exc |-> "None", code |-> "ERROR_SUCCESS", created |-> TRUE]

(* ETW.__init__: one provider, nothing started *)
InitETW ==
    /\ task_name_filters = {}
    /\ event_callback = FALSE
    /\ index = 0
    /\ vfield_length = None
    /\ pc = "idle"
    /\ rec = Rec(<<>>, 0, <<>>)
    /\ i = 0
    /\ out = <<>>
    /\ calls = <<>>
    /\ steps = <<>>
    /\ recs = <<>>
    /\ results = <<>>
    /\ guids \in {<<n>> : n \in SessionNames}
    /\ providers = <<>>
    /\ consumers = <<>>
    /\ ignore_exists_error = TRUE
    /\ epc = "ready"
    /\ g = 0
    /\ raised = "None"
    /\ sessions \in SUBSET SessionNames
    /\ starts = <<>>
    /\ process_thread = [n \in SessionNames |-> "None"]
    /\ end_capture = [n \in SessionNames |-> FALSE]
    /\ trace_handle = [n \in SessionNames |-> "None"]

(* ETW.add_provider: self.guids[name] = ... *)
add_provider(name) ==
    /\ epc = "ready"
    /\ Len(guids) < MaxProviders \/ \E k \in 1..Len(guids) : guids[k] = name
    /\ guids' = IF \E k \in 1..Len(guids) : guids[k] = name THEN guids
                ELSE Append(guids, name)
    /\ UNCHANGED <<consumer, providers, consumers, ignore_exists_error, epc, g,
                   raised, sessions, starts, worker>>

(* ETW.start is called *)
ETWStart(ignore) ==
    /\ epc = "ready"
    /\ ignore_exists_error' = ignore
    /\ g' = 1
    /\ epc' = "provider"
    /\ UNCHANGED <<consumer, guids, providers, consumers, raised, sessions,
                   starts, worker>>

StartEntry(name, exc, code, created, added) ==
    [name |-> name, exc |-> exc, code |-> code, created |-> created,
     provider |-> added, consumer |-> FALSE]

\* ETWStartProviderDone with ERROR_ALREADY_EXISTS raised whatever the flag
ETWStartProviderDoneRaise(name, ps) ==
    /\ sessions' = IF ps.created THEN sessions \cup {name} ELSE sessions
    /\ starts' = Append(starts, StartEntry(name, ps.exc, ps.code, ps.created,
                                           ps.exc = "None"))
    /\ providers' = IF ps.exc = "None" THEN Append(providers, name)
                    ELSE providers
    /\ IF ps.exc # "None" /\ ps.code = "ERROR_ALREADY_EXISTS"
       THEN epc' = "raised" /\ raised' = ps.code
       ELSE epc' = "consumer" /\ UNCHANGED raised
    /\ UNCHANGED <<consumer, guids, consumers, ignore_exists_error, g, worker>>

\* ETWStartProviderDone with every failure raised unless ignore_exists_error
ETWStartProviderDoneStrict(name, ps) ==
    /\ sessions' = IF ps.created THEN sessions \cup {name} ELSE sessions
    /\ starts' = Append(starts, StartEntry(name, ps.exc, ps.code, ps.created,
                                           ps.exc = "None"))
    /\ providers' = IF ps.exc = "None" THEN Append(providers, name)
                    ELSE providers
    /\ IF ps.exc # "None" /\ ~ignore_exists_error
       THEN epc' = "raised" /\ raised' = ps.code
       ELSE epc' = "consumer" /\ UNCHANGED raised
    /\ UNCHANGED <<consumer, guids, consumers, ignore_exists_error, g, worker>>

\* lines 723-728: try provider.start(), append; except WindowsError
ETWStartProviderDone(name, ps) ==
    /\ sessions' = IF ps.created THEN sessions \cup {name} ELSE sessions
    /\ starts' = Append(starts, StartEntry(name, ps.exc, ps.code, ps.created,
                                           ps.exc = "None"))
    /\ providers' = IF ps.exc = "None" THEN Append(providers, name)
                    ELSE providers
    /\ IF /\ ps.exc # "None"
          /\ ps.code = "ERROR_ALREADY_EXISTS"
          /\ ~ignore_exists_error
       THEN epc' = "raised" /\ raised' = ps.code
       ELSE epc' = "consumer" /\ UNCHANGED raised
    /\ UNCHANGED <<consumer, guids, consumers, ignore_exists_error, g, worker>>

(* lines 719-728: the next provider of self.guids is started *)
ETWStartProvider ==
    /\ epc = "provider"
    /\ g <= Len(guids)
    /\ \E st \in StartTraceW(guids[g]), en \in EnableTraceEx2 :
         \E le \in GetLastError(IF st # "ERROR_SUCCESS" THEN st ELSE en) :
            ETWStartProviderDone(guids[g], EventProviderStart(st, en, le))

(* lines 730-733 with EventConsumer.start: OpenTraceW, the worker thread *)
ETWStartConsumer ==
    /\ epc = "consumer"
    /\ \E opened \in BOOLEAN :
         IF opened
         THEN /\ consumers' = Append(consumers, guids[g])
              /\ starts' = [starts EXCEPT ![Len(starts)].consumer = TRUE]
              /\ trace_handle' = [trace_handle EXCEPT ![guids[g]] = "open"]
              /\ process_thread' = [process_thread EXCEPT ![guids[g]] = "start"]
              /\ g' = g + 1
              /\ epc' = "provider"
              /\ UNCHANGED raised
         ELSE /\ epc' = "raised"
              /\ raised' = "OpenTraceW"
              /\ UNCHANGED <<consumers, starts, g, trace_handle, process_thread>>
    /\ UNCHANGED <<consumer, guids, providers, ignore_exists_error, sessions,
                   end_capture>>

(* the loop of ETW.start has run through self.guids *)
ETWStartReturn ==
    /\ epc = "provider"
    /\ g > Len(guids)
    /\ epc' = "started"
    /\ UNCHANGED <<consumer, guids, providers, consumers, ignore_exists_error,
                   g, raised, sessions, starts, worker>>

-----------------------------------------------------------------------------
(* EventConsumer._run: the worker thread of the consumer of session n.  Its *)
(* positions are start (the thread has been started), ProcessTrace (blocked *)
(* in the call), callback (_processEvent is decoding a record), failed (the *)
(* call returned a failure, line 255 is next), check (line 257), loop (back *)
(* at while True) and done.                                                  *)

ProcessTraceStatus == {"ERROR_SUCCESS", "ERROR_INVALID_HANDLE"}

\* ProcessTrace returns success when the trace has been closed or its
\* session has ended; it may fail at any time
ProcessTraceMayReturn(n, status) ==
    \/ status # "ERROR_SUCCESS"
    \/ trace_handle[n] = "closed"
    \/ n \notin sessions

At(n, from, to) ==
    /\ process_thread[n] = from
    /\ process_thread' = [process_thread EXCEPT ![n] = to]

(* line 254: et.ProcessTrace(...) is called *)
RunProcessTrace(n) ==
    /\ \/ At(n, "start", "ProcessTrace")
       \/ At(n, "loop", "ProcessTrace")
    /\ UNCHANGED <<consumer, guids, providers, consumers, ignore_exists_error,
                   epc, g, raised, sessions, starts, end_capture, trace_handle>>

(* the pump hands a record of the live session to _processEvent *)
RunDeliver(n) ==
    /\ trace_handle[n] = "open"
    /\ n \in sessions
    /\ At(n, "ProcessTrace", "callback")
    /\ UNCHANGED <<consumer, guids, providers, consumers, ignore_exists_error,
                   epc, g, raised, sessions, starts, end_capture, trace_handle>>

(* _processEvent returns to the pump *)
RunCallbackReturn(n) ==
    /\ At(n, "callback", "ProcessTrace")
    /\ UNCHANGED <<consumer, guids, providers, consumers, ignore_exists_error,
                   epc, g, raised, sessions, starts, end_capture, trace_handle>>

(* line 254: ProcessTrace returns and its status is tested *)
RunProcessTraceReturn(n, status) ==
    /\ ProcessTraceMayReturn(n, status)
    /\ At(n, "ProcessTrace",
          IF status # "ERROR_SUCCESS" THEN "failed" ELSE "check")
    /\ UNCHANGED <<consumer, guids, providers, consumers, ignore_exists_error,
                   epc, g, raised, sessions, starts, end_capture, trace_handle>>

(* line 255: end_capture.set() *)
RunFailed(n) ==
    /\ At(n, "failed", "check")
    /\ end_capture' = [end_capture EXCEPT ![n] = TRUE]
    /\ UNCHANGED <<consumer, guids, providers, consumers, ignore_exists_error,
                   epc, g, raised, sessions, starts, trace_handle>>

\* RunCheck with the flag ignored: the loop goes on
RunCheckIgnoresFlag(n) ==
    /\ At(n, "check", "loop")
    /\ UNCHANGED <<consumer, guids, providers, consumers, ignore_exists_error,
                   epc, g, raised, sessions, starts, end_capture, trace_handle>>

(* lines 257-258: if end_capture.isSet(): break *)
RunCheck(n) ==
    /\ At(n, "check", IF end_capture[n] THEN "done" ELSE "loop")
    /\ UNCHANGED <<consumer, guids, providers, consumers, ignore_exists_error,
                   epc, g, raised, sessions, starts, end_capture, trace_handle>>

-----------------------------------------------------------------------------
(* ETW.stop, with EventProvider.stop and EventConsumer.stop *)

ControlTraceW == {"ERROR_SUCCESS", "ERROR_ACCESS_DENIED"}

(* EventProvider.stop: handle is session_handle.value != 0, dis and ctl are  *)
(* the statuses of EnableTraceEx2 (disable) and ControlTraceW (stop)         *)
EventProviderStop(handle, dis, ctl) ==
    IF ~handle
    THEN [exc |-> "None", disabled |-> FALSE, stopped |-> FALSE]
    ELSE IF dis # "ERROR_SUCCESS"
    THEN [exc |-> "WindowsError", disabled |-> FALSE, stopped |-> FALSE]
    ELSE IF ctl # "ERROR_SUCCESS"
    THEN [exc |-> "WindowsError", disabled |-> TRUE, stopped |-> FALSE]
    ELSE [exc |-> "None", disabled |-> TRUE, stopped |-> TRUE]

\* session_handle.value != 0: StartTraceW of this provider succeeded
SessionHandle(name) ==
    \E k \in 1..Len(starts) : starts[k].name = name /\ starts[k].created

(* ETW.stop is called *)
ETWStop ==
    /\ epc = "started"
    /\ epc' = "stop_providers"
    /\ UNCHANGED <<consumer, guids, providers, consumers, ignore_exists_error,
                   g, raised, sessions, starts, worker>>

\* lines 741-743: provider.stop(); self.providers.remove(provider)
ETWStopProviderDone(name, ps) ==
    /\ sessions' = IF ps.stopped THEN sessions \ {name} ELSE sessions
    /\ IF ps.exc # "None"
       THEN /\ epc' = "stop_raised"
            /\ raised' = "EventProvider.stop"
            /\ UNCHANGED providers
       ELSE /\ providers' = Tail(providers)
            /\ UNCHANGED <<epc, raised>>
    /\ UNCHANGED <<consumer, guids, consumers, ignore_exists_error, g, starts,
                   worker>>

(* lines 741-743: the first loop of ETW.stop, over list(self.providers) *)
ETWStopProvider ==
    /\ epc = "stop_providers"
    /\ providers # <<>>
    /\ \E dis \in EnableTraceEx2, ctl \in ControlTraceW :
         ETWStopProviderDone(Head(providers),
             EventProviderStop(SessionHandle(Head(providers)), dis, ctl))

(* the first loop is over, the second begins *)
ETWStopProvidersDone ==
    /\ epc = "stop_providers"
    /\ providers = <<>>
    /\ epc' = "stop_consumers"
    /\ UNCHANGED <<consumer, guids, providers, consumers, ignore_exists_error,
                   g, raised, sessions, starts, worker>>

(* EventConsumer.stop, line 235: self.end_capture.set() *)
EventConsumerStopSet ==
    /\ epc = "stop_consumers"
    /\ consumers # <<>>
    /\ end_capture' = [end_capture EXCEPT ![Head(consumers)] = TRUE]
    /\ epc' = "close"
    /\ UNCHANGED <<consumer, guids, providers, consumers, ignore_exists_error,
                   g, raised, sessions, starts, process_thread, trace_handle>>

(* EventConsumer.stop, line 238: et.CloseTrace(self.trace_handle) *)
EventConsumerStopClose ==
    /\ epc = "close"
    /\ trace_handle' = [trace_handle EXCEPT ![Head(consumers)] = "closed"]
    /\ epc' = "join"
    /\ UNCHANGED <<consumer, guids, providers, consumers, ignore_exists_error,
                   g, raised, sessions, starts, process_thread, end_capture>>

(* EventConsumer.stop, line 242: self.process_thread.join() returns, and   *)
(* line 747: self.consumers.remove(consumer)                                 *)
EventConsumerStopJoin ==
    /\ epc = "join"
    /\ process_thread[Head(consumers)] = "done"
    /\ consumers' = Tail(consumers)
    /\ epc' = "stop_consumers"
    /\ UNCHANGED <<consumer, guids, providers, ignore_exists_error, g, raised,
                   sessions, starts, worker>>

(* ETW.stop returns *)
ETWStopReturn ==
    /\ epc = "stop_consumers"
    /\ consumers = <<>>
    /\ epc' = "stopped"
    /\ UNCHANGED <<consumer, guids, providers, consumers, ignore_exists_error,
                   g, raised, sessions, starts, worker>>

NextETW ==
    \/ \E name \in SessionNames : add_provider(name)
    \/ \E ignore \in BOOLEAN : ETWStart(ignore)
    \/ ETWStartProvider
    \/ ETWStartConsumer
    \/ ETWStartReturn
    \/ \E n \in SessionNames : RunProcessTrace(n)
    \/ \E n \in SessionNames : RunDeliver(n)
    \/ \E n \in SessionNames : RunCallbackReturn(n)
    \/ \E n \in SessionNames, status \in ProcessTraceStatus :
           RunProcessTraceReturn(n, status)
    \/ \E n \in SessionNames : RunFailed(n)
    \/ \E n \in SessionNames : RunCheck(n)
    \/ ETWStop
    \/ ETWStopProvider
    \/ ETWStopProvidersDone
    \/ EventConsumerStopSet
    \/ EventConsumerStopClose
    \/ EventConsumerStopJoin
    \/ ETWStopReturn

SpecETW == InitETW /\ [][NextETW]_vars

\* The scheduling of the worker thread of session n: a runnable thread gets
\* to run, a callback returns, and ProcessTrace returns once the trace has
\* been closed.
WorkerFairness(n) ==
    /\ WF_vars(RunProcessTrace(n))
    /\ WF_vars(RunCallbackReturn(n))
    /\ WF_vars(trace_handle[n] = "closed"
               /\ RunProcessTraceReturn(n, "ERROR_SUCCESS"))
    /\ WF_vars(RunFailed(n))
    /\ WF_vars(RunCheck(n))

\* the caller of EventConsumer.stop gets to run
StopFairness ==
    /\ WF_vars(EventConsumerStopClose)
    /\ WF_vars(EventConsumerStopJoin)

\* ETW.__init__ with the provider s1; the other names are interchangeable
InitLive ==
    /\ InitETW
    /\ guids = <<"s1">>
    /\ sessions \subseteq {"s1", "s2"}

SpecLive ==
    /\ InitLive
    /\ [][NextETW]_vars
    /\ \A n \in SessionNames : WorkerFairness(n)
    /\ StopFairness

-----------------------------------------------------------------------------
(* EventConsumer._processEvent as a function of the record alone: what it  *)
(* does when the walk starts from the cursor of lines 625-626.              *)

RECURSIVE WalkFields(_, _, _, _, _)

\* lines 636-640: out.update(...) or the exception
WalkStep(r, k, o, res) ==
    IF res.exc # "None" THEN [exc |-> res.exc, out |-> <<>>]
    ELSE WalkFields(r, k + 1, res.index, res.vfield, DictUpdate(o, res.ret))

\* lines 629-640: the loop over the top-level properties
WalkFields(r, k, idx, vf, o) ==
    IF k > r.TopLevelPropertyCount \/ AtEndOfUserData(r)
    THEN [exc |-> "None", out |-> o]
    ELSE IF "PropertyStruct" \in r.props[k].flags
    THEN WalkStep(r, k, o, unpackComplexType(r, k, idx, vf))
    ELSE WalkStep(r, k, o, unpackSimpleType(r, k, idx, vf))

\* lines 642-650
processEventWalked(r, w) ==
    IF w.exc # "None" THEN Result("raised", w.exc, <<>>)
    ELSE IF event_callback
    THEN Result("delivered", "None",
                <<r.EventId,
                  DictSet(DictSet(w.out, "Description", StrValue(r.EventMessage)),
                          "Task Name", StrValue(TaskNameOf(r)))>>)
    ELSE Result("returned", "None", <<>>)

\* lines 575-627
processEventInfo(r, e) ==
    IF e.exc # "None" THEN Result("raised", e.exc, <<>>)
    ELSE IF ~e.info THEN Result("skipped", "None", <<>>)
    ELSE IF task_name_filters # {} /\ TaskNameOf(r) \notin task_name_filters
    THEN Result("filtered", "None", <<>>)
    ELSE processEventWalked(r, WalkFields(r, 1, 0, None,
                                          <<<<"EventHeader", HeaderValue(r)>>>>))

processEvent(r) == processEventInfo(r, getEventInformation(r))

-----------------------------------------------------------------------------
(* Vocabulary of the properties *)

\* _processEvent has returned (or raised) for the record rec
Finished == pc = "idle" /\ results # <<>>

LastResult == results[Len(results)]

FixedKeys == {"EventHeader", "Description", "Task Name"}

TopFields(r) == 1..r.TopLevelPropertyCount

TopScalar(r) == \A k \in TopFields(r) : "PropertyStruct" \notin r.props[k].flags

DistinctNames(r) ==
    /\ \A k \in TopFields(r) : r.props[k].name \notin FixedKeys
    /\ \A k, m \in TopFields(r) : k # m => r.props[k].name # r.props[m].name

FilterPasses(r) ==
    task_name_filters = {} \/ TaskNameOf(r) \in task_name_filters

\* the names of the dispatched fields that got an entry, in dispatch order
RECURSIVE EntryNames(_, _)
EntryNames(r, st) ==
    IF st = <<>> THEN <<>>
    ELSE (IF st[1].kind \in {"formatted", "fragment", "absent"}
          THEN <<r.props[st[1].at].name>> ELSE <<>>) \o EntryNames(r, Tail(st))

RECURSIVE AllNames(_, _)
AllNames(r, k) ==
    IF k > r.TopLevelPropertyCount THEN <<>>
    ELSE <<r.props[k].name>> \o AllNames(r, k + 1)

FmtCalls(at) == {k \in 1..Len(calls) : calls[k].cap = "fmt" /\ calls[k].at = at}

FieldCalls == {k \in 1..Len(calls) : calls[k].cap # "info"}

\* step k of the current record follows a step that left the pending length n
\* after formatting a field whose name ends in length
AfterLength(k, n) ==
    /\ k \in 2..Len(steps)
    /\ steps[k - 1].kind \in {"formatted", "fragment"}
    /\ EndsWithLength(rec.props[steps[k - 1].at].name)
    /\ steps[k - 1].vfield1 = Some(n)
    /\ "PropertyStruct" \notin rec.props[steps[k].at].flags

Resolved(k) == getPropertyLength(rec, steps[k].at).length

-----------------------------------------------------------------------------
(* C1 (as stated): every record whose metadata resolves and whose payload  *)
(* matches the declared layout (every field dispatched, every formatter    *)
(* call a success, a field left without bytes only when its length by      *)
(* reference is 0, the bytes consumed adding up to the payload length)     *)
(* delivers a mapping with exactly one entry per top-level field, in       *)
(* declaration order, between EventHeader and Description, Task Name.      *)
LayoutMatches ==
    /\ Len(steps) = rec.TopLevelPropertyCount
    /\ \A k \in 1..Len(steps) :
         \/ steps[k].kind \in {"formatted", "absent"}
         \/ /\ steps[k].kind = "skip"
            /\ "PropertyParamLength" \in rec.props[steps[k].at].flags
            /\ Resolved(k) = 0
    /\ index = Len(rec.UserData)

C1_OneEntryPerField ==
    (/\ Finished
     /\ rec.fault = NoFault
     /\ FilterPasses(rec) /\ event_callback
     /\ TopScalar(rec) /\ DistinctNames(rec)
     /\ LayoutMatches)
    => /\ LastResult.how = "delivered"
       /\ Keys(LastResult.arg[2])
            = <<"EventHeader">> \o AllNames(rec, 1) \o <<"Description", "Task Name">>

(* C1 (amended): for a record whose queries return their natural statuses,  *)
(* that passes the filter of a consumer with a callback, and whose top-level *)
(* fields are scalars with pairwise distinct names other than the fixed     *)
(* keys, the mapping delivered holds EventHeader, then exactly one entry    *)
(* for each top-level field that was formatted, recovered as a fragment or  *)
(* emitted as None, in declaration order, then Description and Task Name;   *)
(* a field reached with no unread payload byte gets no entry.               *)
C1_EntryPerDecodedField ==
    (/\ Finished
     /\ rec.fault = NoFault
     /\ FilterPasses(rec) /\ event_callback
     /\ TopScalar(rec) /\ DistinctNames(rec))
    => /\ LastResult.how = "delivered"
       /\ Keys(LastResult.arg[2])
            = <<"EventHeader">> \o EntryNames(rec, steps)
              \o <<"Description", "Task Name">>
       /\ \A k \in 1..Len(steps) :
            steps[k].kind = "skip" <=> /\ steps[k].index0 >= Len(rec.UserData)
                                       /\ ~(/\ Resolved(k) = 0
                                            /\ steps[k].vfield0 = Some(0))

C1_Witness ==
    /\ Finished
    /\ LastResult.how = "delivered"
    /\ TopScalar(rec) /\ DistinctNames(rec)
    /\ Len(steps) = 3
    /\ steps[1].kind = "formatted"
    /\ steps[2].kind = "absent"
    /\ steps[3].kind = "skip"

-----------------------------------------------------------------------------
(* C2: decoding the same record twice in succession through the same        *)
(* consumer ends the same way and delivers the same mapping, and every      *)
(* payload walk starts at offset 0 with no pending length.                  *)
C2_SameRecordSameMapping ==
    /\ \A j, k \in 1..Len(results) : recs[j] = recs[k] => results[j] = results[k]
    /\ (pc = "loop" /\ i = 1) => (index = 0 /\ vfield_length = None)

C2_Witness ==
    /\ Len(results) = 2
    /\ recs[1] = recs[2]
    /\ results[2].how = "delivered"
    /\ index > 0
    /\ vfield_length # None

-----------------------------------------------------------------------------
(* C3 (as stated): after a field whose name ends in length is formatted as  *)
(* 0, the next scalar field (unread bytes remaining) is emitted as None, the *)
(* offset does not move,                                                    *)
(* the formatter is not called for it and no length is pending afterwards.  *)
C3_NextFieldAbsent ==
    \A k \in 1..Len(steps) :
        (AfterLength(k, 0) /\ steps[k].kind # "raise"
         /\ steps[k].index0 < Len(rec.UserData))
        => /\ steps[k].kind = "absent"
           /\ steps[k].index1 = steps[k].index0
           /\ steps[k].vfield1 = None
           /\ FmtCalls(steps[k].at) = {}

(* C3 (amended): the same, for a next scalar field whose resolved length is *)
(* 0 (and whose map and length queries succeed); its entry is None under    *)
(* its own name.  A next field with a non-zero resolved length is decoded   *)
(* as usual and leaves the pending 0 in place.                              *)
C3_NextZeroLengthFieldAbsent ==
    \A k \in 1..Len(steps) :
        (AfterLength(k, 0) /\ steps[k].kind # "raise")
        => IF Resolved(k) = 0
           THEN /\ steps[k].kind = "absent"
                /\ steps[k].index1 = steps[k].index0
                /\ steps[k].vfield1 = None
                /\ FmtCalls(steps[k].at) = {}
                /\ (k = Len(steps) /\ pc = "loop")
                   => /\ HasKey(out, rec.props[steps[k].at].name)
                      /\ Get(out, rec.props[steps[k].at].name) = NoneValue
           ELSE steps[k].kind # "absent"

C3_Witness ==
    /\ pc = "loop"
    /\ AfterLength(Len(steps), 0)
    /\ steps[Len(steps)].kind = "absent"
    /\ steps[Len(steps)].index0 < Len(rec.UserData)

-----------------------------------------------------------------------------
(* C4 (as stated): after a field whose name ends in length is formatted as  *)
(* a non-zero n, the next scalar field is passed to the formatter with byte *)
(* length n, whatever its own declared length.                              *)
C4_NextFieldUsesLength ==
    \A k \in 1..Len(steps) : \A n \in 1..MaxByte :
        (AfterLength(k, n) /\ steps[k].kind \in {"formatted", "fragment"})
        => /\ FmtCalls(steps[k].at) # {}
           /\ \A c \in FmtCalls(steps[k].at) : calls[c].len = n

(* C4 (amended): the next scalar field is passed to the formatter with byte *)
(* length n when its own resolved length is 0, and with its own resolved    *)
(* length otherwise; the formatter is called whenever unread bytes remain.  *)
C4_NextZeroLengthFieldUsesLength ==
    \A k \in 1..Len(steps) : \A n \in 1..MaxByte :
        (AfterLength(k, n) /\ steps[k].kind # "raise")
        => /\ (steps[k].index0 < Len(rec.UserData)) <=> (FmtCalls(steps[k].at) # {})
           /\ \A c \in FmtCalls(steps[k].at) :
                calls[c].len = IF Resolved(k) = 0 THEN n ELSE Resolved(k)

C4_Witness ==
    /\ pc = "loop"
    /\ AfterLength(Len(steps), 2)
    /\ Resolved(Len(steps)) = 0
    /\ steps[Len(steps)].kind = "formatted"
    /\ steps[Len(steps)].index1 = steps[Len(steps)].index0 + 2

-----------------------------------------------------------------------------
(* C5: when the last formatter call for a field reports invalid event data, *)
(* the field is not a failure: it gets the unread bytes (up to a NUL) as    *)
(* its value and the offset becomes the payload length.                     *)
InvalidData(k) ==
    /\ FmtCalls(steps[k].at) # {}
    /\ \E c \in FmtCalls(steps[k].at) :
         /\ \A d \in FmtCalls(steps[k].at) : d <= c
         /\ calls[c].status = "ERROR_EVT_INVALID_EVENT_DATA"

-----------------------------------------------------------------------------
(* C6: when the filter is non-empty and does not hold the record's task     *)
(* name, _processEvent returns without calling the callback, without any    *)
(* query for a payload field, and with the cursor as it was.                *)
C6_FilteredNoEffect ==
    [][(/\ pc = "idle"
        /\ Len(recs') = Len(recs) + 1
        /\ getEventInformation(rec').info
        /\ task_name_filters # {}
        /\ TaskNameOf(rec') \notin task_name_filters)
       => /\ pc' = "idle"
          /\ Len(results') = Len(results) + 1
          /\ results'[Len(results')].how = "filtered"
          /\ index' = index
          /\ vfield_length' = vfield_length
          /\ steps' = <<>>
          /\ \A c \in 1..Len(calls') : calls'[c].cap = "info"]_vars

C6_Witness ==
    /\ Len(results) = 2
    /\ results[1].how = "delivered"
    /\ results[2].how = "filtered"
    /\ index > 0

-----------------------------------------------------------------------------
(* C7: a structure field with count c and m one-byte members, with payload  *)
(* for all of them, is decoded by c * m member decodes in element-major,    *)
(* member-minor order and returns its mapping.                              *)
ElementMajor(c, start, m) ==
    [n \in 1..(c * m) |-> <<((n - 1) \div m) + 1, start + ((n - 1) % m)>>]

C7_StructElementMajor ==
    \A k \in 1..Len(steps) :
        LET p == rec.props[steps[k].at]
        IN  (/\ "PropertyStruct" \in p.flags
             /\ p.flags \cap {"PropertyParamCount", "PropertyParamFixedCount"} = {}
             /\ rec.fault = NoFault
             /\ \A j \in p.structStart..(p.structStart + p.numMembers - 1) :
                    rec.props[j] = LenDec
             /\ Len(rec.UserData) - steps[k].index0 >= p.count * p.numMembers)
            => /\ steps[k].kind = "struct"
               /\ steps[k].decoded = ElementMajor(p.count, p.structStart, p.numMembers)

-----------------------------------------------------------------------------
(* C8: a record with a null UserData and UserDataLength 0 dispatches no     *)
(* top-level field and is delivered with the fixed keys alone.              *)
C8_NullPayloadDelivered ==
    (/\ Finished
     /\ rec.UserDataNull /\ Len(rec.UserData) = 0
     /\ getEventInformation(rec).info
     /\ FilterPasses(rec) /\ event_callback)
    => /\ LastResult.how = "delivered"
       /\ steps = <<>>
       /\ FieldCalls = {}
       /\ Keys(LastResult.arg[2]) = <<"EventHeader", "Description", "Task Name">>

C8_Witness ==
    /\ Finished
    /\ rec.UserDataNull
    /\ rec.TopLevelPropertyCount = 2
    /\ LastResult.how = "delivered"

-----------------------------------------------------------------------------
(* C9: a dispatched field whose flags hold PropertyParamFixedCount ends the *)
(* decode in ETWException.                                                  *)
C9_FixedCountUnsupported ==
    (/\ Finished
     /\ rec.fault = NoFault
     /\ \E k \in 1..Len(steps) :
            "PropertyParamFixedCount" \in rec.props[steps[k].at].flags)
    => /\ LastResult.how = "raised"
       /\ LastResult.exc = "ETWException"

-----------------------------------------------------------------------------
(* C10: when the last metadata call reports ERROR_NOT_FOUND, the record is  *)
(* skipped: nothing is raised, nothing is delivered, no field is dispatched *)
(* and no query for a payload field is issued.                              *)
InfoNotFound ==
    \E c \in 1..Len(calls) :
        /\ calls[c].cap = "info"
        /\ calls[c].status = "ERROR_NOT_FOUND"
        /\ \A d \in 1..Len(calls) : calls[d].cap = "info" => d <= c

C10_NoSchemaSkipped ==
    (Finished /\ InfoNotFound)
    => /\ LastResult.how = "skipped"
       /\ LastResult.exc = "None"
       /\ steps = <<>>
       /\ FieldCalls = {}

C10_Witness ==
    /\ Finished
    /\ InfoNotFound
    /\ Len(calls) = 2
    /\ LastResult.how = "skipped"

-----------------------------------------------------------------------------
(* C11: when a query made for a record returns a status the code does not   *)
(* handle, the decode of that record ends in WinError with the callback not *)
(* called; and the record delivered after any record that raised ends as it *)
(* would on a consumer that never saw the failed record.                    *)
Handled(cap) ==
    CASE cap \in {"info", "map"} -> {"ERROR_SUCCESS", "ERROR_NOT_FOUND"}
      [] cap = "fmt" -> {"ERROR_SUCCESS", "ERROR_EVT_INVALID_EVENT_DATA"}
      [] OTHER -> {"ERROR_SUCCESS"}

\* the status of a call that is not followed by a second call with a buffer
Unexpected(c) ==
    /\ \/ c.cap \in {"size", "prop"}
       \/ c.phase = "fill"
       \/ c.status # "ERROR_INSUFFICIENT_BUFFER"
    /\ c.status \notin Handled(c.cap)

-----------------------------------------------------------------------------
(* C12: _processEvent never ends in an exception.                           *)
C12_NeverRaises ==
    \A k \in 1..Len(results) : results[k].how # "raised"

-----------------------------------------------------------------------------
(* C13: in ETW.start, when a provider's start fails with the error          *)
(* ERROR_ALREADY_EXISTS: with ignore_exists_error the consumer of that      *)
(* session is still started and recorded; without it the error is raised to *)
(* the caller and no consumer is started for that provider.  Either way the *)
(* provider is not added to providers.                                      *)
AlreadyExists(k) ==
    starts[k].exc = "WindowsError" /\ starts[k].code = "ERROR_ALREADY_EXISTS"

C13_AlreadyExistsIgnoredOrRaised ==
    \A k \in 1..Len(starts) :
        AlreadyExists(k)
        => /\ ~starts[k].provider
           /\ \A n \in 1..Len(providers) : providers[n] # starts[k].name
           /\ IF ignore_exists_error
              THEN /\ raised # "ERROR_ALREADY_EXISTS"
                   /\ (k < Len(starts) \/ epc \notin {"provider", "consumer",
                                                        "raised"})
                      => /\ starts[k].consumer
                         /\ epc \in {"provider", "consumer", "raised", "started"}
                            => \E n \in 1..Len(consumers) :
                                   consumers[n] = starts[k].name
              ELSE /\ k = Len(starts)
                   /\ epc = "raised" /\ raised = "ERROR_ALREADY_EXISTS"
                   /\ ~starts[k].consumer
                   /\ \A n \in 1..Len(consumers) : consumers[n] # starts[k].name

C13_Witness ==
    /\ epc = "started"
    /\ ignore_exists_error
    /\ Len(starts) = 2
    /\ AlreadyExists(1)
    /\ consumers = guids
    /\ providers = <<guids[2]>>

-----------------------------------------------------------------------------
\* the scalar step k was decoded by a formatter call
Decoded(k) ==
    /\ "PropertyStruct" \notin rec.props[steps[k].at].flags
    /\ steps[k].kind \in {"formatted", "fragment"}

(* C14: once a scalar field whose name does not end in length has used a    *)
(* non-zero pending length as its byte length, the slot is empty.           *)
C14_PendingClearedAfterUse ==
    \A k \in 1..Len(steps) :
        (/\ Decoded(k)
         /\ ~EndsWithLength(rec.props[steps[k].at].name)
         /\ Resolved(k) = 0
         /\ steps[k].vfield0 # None
         /\ steps[k].vfield0 # Some(0))
        => steps[k].vfield1 = None

-----------------------------------------------------------------------------
(* C15: when field k - 1 follows a length field, has a non-zero resolved    *)
(* length of its own and a name that does not end in length, no field from  *)
(* k on (up to the next length field) is emitted as Absent or formatted     *)
(* with another length than its own resolved one.                           *)
NoLengthBetween(j, k) ==
    \A m \in j..(k - 1) : ~EndsWithLength(rec.props[steps[m].at].name)

C15_PendingOnlyForNextField ==
    \A j \in 2..Len(steps) : \A k \in (j + 1)..Len(steps) :
        (/\ \E n \in 0..MaxByte : AfterLength(j, n)
         /\ Decoded(j)
         /\ Resolved(j) # 0
         /\ NoLengthBetween(j, k)
         /\ "PropertyStruct" \notin rec.props[steps[k].at].flags
         /\ steps[k].kind # "raise")
        => /\ steps[k].kind # "absent"
           /\ \A c \in FmtCalls(steps[k].at) : calls[c].len = Resolved(k)

-----------------------------------------------------------------------------
(* C16: after a scalar field is formatted, the pending length is the        *)
(* integer its value spells in base 10, or None when the value spells none, *)
(* if the field's name ends in length (in any case); otherwise it is what   *)
(* it was before the field.                                                 *)
IsNumeral(t) == t # <<>> /\ \A c \in 1..Len(t) : IsDigit(t[c])

\* t is the decimal numeral of v[1], after leading zeros; or no numeral
Spells(t, v) ==
    IF IsNumeral(t)
    THEN /\ v # None
         /\ \E z \in 0..(Len(t) - 1) :
               /\ \A c \in 1..z : t[c] = 0
               /\ SubSeq(t, z + 1, Len(t)) = FormatDec(v[1])
    ELSE v = None

C16_LengthNameSetsPending ==
    (pc = "loop" /\ steps # <<>> /\ Decoded(Len(steps)))
    => IF Lower(rec.props[steps[Len(steps)].at].name)
            \in {"datalength", "payloadlength"}
       THEN Spells(Get(out, rec.props[steps[Len(steps)].at].name).text,
                   vfield_length)
       ELSE vfield_length = steps[Len(steps)].vfield0

C16_Witness ==
    /\ pc = "loop" /\ steps # <<>> /\ Decoded(Len(steps))
    /\ rec.props[steps[Len(steps)].at].name = "PAYLOADLENGTH"
    /\ steps[Len(steps)].vfield0 = Some(2)
    /\ vfield_length = None

-----------------------------------------------------------------------------
(* C17: no top-level field is dispatched once the read offset equals the    *)
(* payload length: every dispatched field finds unread bytes.               *)
C17_StopsAtEndOfPayload ==
    \A k \in 1..Len(steps) : steps[k].index0 < Len(rec.UserData)

-----------------------------------------------------------------------------
(* C18: a record whose payload is exhausted before its last declared field  *)
(* is delivered, with the entries of the fields dispatched before the       *)
(* exhaustion and the fixed keys, and no formatter call is made with no     *)
(* byte remaining.                                                          *)
Exhausted(k) == steps[k].index0 >= Len(rec.UserData)

RECURSIVE NamesBefore(_, _)
NamesBefore(r, st) ==
    IF st = <<>> \/ st[1].index0 >= Len(r.UserData) THEN <<>>
    ELSE <<r.props[st[1].at].name>> \o NamesBefore(r, Tail(st))

C18_PartialRecordDelivered ==
    (/\ Finished
     /\ rec.fault = NoFault
     /\ FilterPasses(rec) /\ event_callback
     /\ DistinctNames(rec)
     /\ \A k \in 1..Len(steps) :
            Exhausted(k) \/ "PropertyStruct" \notin rec.props[steps[k].at].flags
     /\ \E k \in 1..Len(steps) : Exhausted(k))
    => /\ LastResult.how = "delivered"
       /\ Keys(LastResult.arg[2])
            = <<"EventHeader">> \o NamesBefore(rec, steps)
              \o <<"Description", "Task Name">>
       /\ \A c \in 1..Len(calls) : calls[c].cap = "fmt" => calls[c].remaining > 0

-----------------------------------------------------------------------------
(* C19: a structure field whose first member decode finds no unread byte    *)
(* (the member decode returns {}) returns normally, with that one member    *)
(* decode and no entry.                                                     *)
C19_StructStopsOnSkip ==
    \A k \in 1..Len(steps) :
        LET p == rec.props[steps[k].at]
        IN  (/\ "PropertyStruct" \in p.flags
             /\ p.flags \cap {"PropertyParamCount", "PropertyParamFixedCount"} = {}
             /\ rec.fault = NoFault
             /\ p.count >= 1 /\ p.numMembers >= 1
             /\ rec.props[p.structStart] = LenDec
             /\ Exhausted(k))
            => /\ steps[k].kind = "struct"
               /\ steps[k].decoded = <<<<1, p.structStart>>>>
               /\ steps[k].index1 = steps[k].index0

-----------------------------------------------------------------------------
(* C20: for a field of input type BINARY and output type IPV6 the resolved  *)
(* length is 16 whatever its declared length and its flags, and the         *)
(* formatter is called with that length.                                    *)
C20_Ipv6LengthIs16 ==
    \A k \in 1..Len(steps) :
        (/\ rec.fault = NoFault
         /\ "PropertyStruct" \notin rec.props[steps[k].at].flags
         /\ rec.props[steps[k].at].inType = "BINARY"
         /\ rec.props[steps[k].at].outType = "IPV6")
        => /\ Resolved(k) = SizeofIN6_ADDR
           /\ \A c \in FmtCalls(steps[k].at) : calls[c].len = SizeofIN6_ADDR

-----------------------------------------------------------------------------
(* The grow-buffer queries: TdhGetEventInformation, TdhGetEventMapInformation *)
(* and TdhFormatProperty.                                                     *)

GrowCaps == {"info", "map", "fmt"}

SameQuery(c, d) == calls[c].cap = calls[d].cap /\ calls[c].at = calls[d].at

CallsOf(cap, at) ==
    {c \in 1..Len(calls) : calls[c].cap = cap /\ calls[c].at = at}

LastOf(S) == CHOOSE c \in S : \A d \in S : d <= c

\* the call c is a probe: no buffer, and a second call follows exactly when it
\* reported ERROR_INSUFFICIENT_BUFFER
ProbeCall(c) ==
    /\ calls[c].buffer = 0
    /\ IF calls[c].status = "ERROR_INSUFFICIENT_BUFFER"
       THEN c < Len(calls) /\ SameQuery(c, c + 1) /\ calls[c + 1].phase = "fill"
       ELSE ~(c < Len(calls) /\ SameQuery(c, c + 1) /\ calls[c + 1].phase = "fill")

\* the call c is a second call: it follows its probe, takes a buffer of the
\* size the probe reported, and is not repeated
FillCall(c) ==
    /\ c > 1
    /\ SameQuery(c - 1, c)
    /\ calls[c - 1].phase = "probe"
    /\ calls[c - 1].status = "ERROR_INSUFFICIENT_BUFFER"
    /\ calls[c].buffer = calls[c - 1].size
    /\ ~(c < Len(calls) /\ SameQuery(c, c + 1))

\* the metadata query's outcome follows the status of its last call
InfoOutcome ==
    LET last == calls[LastOf(CallsOf("info", 0))].status
        left == pc = "idle" /\ steps = <<>> /\ results # <<>>
    IN  CASE last = "ERROR_NOT_FOUND" -> left /\ LastResult.how = "skipped"
          [] last = "ERROR_SUCCESS" ->
               ~(left /\ LastResult.how \in {"skipped", "raised"})
          [] OTHER -> left /\ LastResult = Result("raised", "WinError", <<>>)

\* a scalar field's outcome follows the status of the last map query and of
\* the last formatter call made for it
FieldOutcome(k) ==
    LET a == steps[k].at
        maps == CallsOf("map", a)
        fmts == CallsOf("fmt", a)
    IN  /\ maps # {} /\ calls[LastOf(maps)].status
                            \notin {"ERROR_SUCCESS", "ERROR_NOT_FOUND"}
            => steps[k].kind = "raise" /\ fmts = {}
        /\ fmts # {} =>
              steps[k].kind =
                CASE calls[LastOf(fmts)].status = "ERROR_SUCCESS" -> "formatted"
                  [] calls[LastOf(fmts)].status = "ERROR_EVT_INVALID_EVENT_DATA"
                       -> "fragment"
                  [] OTHER -> "raise"

\* C21: every query of the metadata, of a field's value map and of the
\* formatter is one probe without a buffer, followed at most once, and only
\* when the probe reported ERROR_INSUFFICIENT_BUFFER, by a call with a buffer
\* of the size the probe reported; what happens next follows the status of
\* the last call made.
C21_TwoCallProtocol ==
    /\ \A c \in 1..Len(calls) :
          calls[c].cap \in GrowCaps =>
            IF calls[c].phase = "probe" THEN ProbeCall(c) ELSE FillCall(c)
    /\ calls # <<>> => InfoOutcome
    /\ \A k \in 1..Len(steps) :
          "PropertyStruct" \notin rec.props[steps[k].at].flags => FieldOutcome(k)

\* a field whose map and value both took the second call
C21_Witness ==
    /\ pc = "loop"
    /\ \E k \in 1..Len(steps) :
          /\ steps[k].kind = "formatted"
          /\ \E c \in CallsOf("map", steps[k].at) : calls[c].phase = "fill"
          /\ \E c \in CallsOf("fmt", steps[k].at) :
                calls[c].phase = "fill" /\ calls[c].buffer > 0
    /\ \E c \in CallsOf("info", 0) : calls[c].phase = "fill"
-----------------------------------------------------------------------------
\* the mapping handed to the callback by the last record
Delivered == LastResult.arg[2]

\* C24: in every delivered mapping the keys EventHeader, Description and
\* Task Name hold the values derived from the record's header, whatever the
\* names of the payload fields.
C24_FixedKeysFromHeader ==
    Finished /\ LastResult.how = "delivered" =>
        /\ Get(Delivered, "EventHeader") = HeaderValue(rec)
        /\ Get(Delivered, "Description") = StrValue(rec.EventMessage)
        /\ Get(Delivered, "Task Name") = StrValue(TaskNameOf(rec))
-----------------------------------------------------------------------------
\* the bytes the formatter reported as consumed for the scalar field of step k
Consumed(k) ==
    LET a == steps[k].at
        p == rec.props[a]
        c == LastOf(CallsOf("fmt", a))
    IN  TdhFormatProperty(p.inType, p.outType, getMapInfo(rec, a).map_info,
                          calls[c].len,
                          SubSeq(rec.UserData, steps[k].index0 + 1,
                                 Len(rec.UserData))).consumed

\* the offset moves from step to step without a gap, starting at 0
OffsetChain ==
    /\ steps # <<>> => steps[1].index0 = 0
    /\ \A k \in 1..Len(steps) - 1 : steps[k + 1].index0 = steps[k].index1
    /\ index = IF steps = <<>> THEN 0 ELSE steps[Len(steps)].index1

\* C25: within one decode the payload offset starts at 0, never decreases
\* and never exceeds the payload length; a formatted field advances it by the
\* bytes the formatter consumed, a recovered fragment by the bytes that
\* remained, and an absent or skipped field leaves it unchanged.
C25_OffsetMonotoneBounded ==
    pc \in {"loop", "finish"} \/ steps # <<>> =>
        /\ OffsetChain
        /\ index <= Len(rec.UserData)
        /\ \A k \in 1..Len(steps) :
              /\ steps[k].index0 <= steps[k].index1
              /\ steps[k].index1 <= Len(rec.UserData)
              /\ steps[k].kind = "formatted" =>
                    steps[k].index1 = steps[k].index0 + Consumed(k)
              /\ steps[k].kind = "fragment" =>
                    steps[k].index1 = Len(rec.UserData)
              /\ steps[k].kind \in {"absent", "skip"} =>
                    steps[k].index1 = steps[k].index0
              /\ steps[k].kind = "raise"
                   /\ "PropertyStruct" \notin rec.props[steps[k].at].flags =>
                    steps[k].index1 = steps[k].index0

\* one decode with a formatted field, an absent field and a fragment
C25_Witness ==
    /\ pc = "finish"
    /\ Len(steps) = 3
    /\ steps[1].kind = "formatted" /\ steps[1].index1 > 0
    /\ steps[2].kind = "absent"
    /\ steps[3].kind = "fragment" /\ steps[3].index1 > steps[3].index0
-----------------------------------------------------------------------------
\* the last record had metadata and was dropped by the task name filter
Filtered ==
    pc = "idle" /\ steps = <<>> /\ results # <<>> /\ LastResult.how = "filtered"

\* the last record got past _getEventInformation
HasInfo ==
    recs # <<>> /\ getEventInformation(rec).exc = "None"
    /\ getEventInformation(rec).info

\* the record's task name, or its provider name when it has none, trimmed
\* and upper-cased
NormalizedTaskName ==
    StripUpper(IF rec.TaskNameOffset = 0 THEN rec.ProviderName
               ELSE rec.TaskName)

\* the entry is what strip().upper() leaves of it
Normalized(entry) == StripUpper(entry) = entry

\* C26: a record is dropped by the filter exactly when the filter is not
\* empty and the record's normalized task name (the provider name when the
\* record has no task name) is not literally one of its entries; an empty
\* filter drops nothing, an entry that is not trimmed and upper-case equals
\* no record's name, and a non-empty filter of such entries drops every
\* record.
C26_FilterComparesVerbatim ==
    HasInfo =>
        /\ Filtered <=> /\ task_name_filters # {}
                        /\ NormalizedTaskName \notin task_name_filters
        /\ task_name_filters = {} => ~Filtered
        /\ \A entry \in task_name_filters :
              ~Normalized(entry) => NormalizedTaskName # entry
        /\ task_name_filters # {}
             /\ (\A entry \in task_name_filters : ~Normalized(entry))
             => Filtered

\* a record named " TaskA " dropped by the filter {" TaskA "}, after a
\* record without a task name dropped on its provider name
C26_Witness ==
    /\ Filtered
    /\ HasInfo
    /\ task_name_filters = {" TaskA "}
    /\ rec.TaskNameOffset # 0 /\ rec.TaskName = " TaskA "
    /\ Len(recs) = 2 /\ recs[1].TaskNameOffset = 0
    /\ results[1].how = "filtered"
-----------------------------------------------------------------------------
\* iteration k of ETW.start: the provider's start failed with another error
\* than ERROR_ALREADY_EXISTS
OtherFailure(k) ==
    starts[k].exc = "WindowsError" /\ starts[k].code # "ERROR_ALREADY_EXISTS"

\* ETW.start is still running or has ended, and ETW.stop has not begun
Starting == epc \in {"provider", "consumer", "raised", "started"}

\* C28: in ETW.start a provider whose start fails with an error other than
\* ERROR_ALREADY_EXISTS raises nothing, with or without ignore_exists_error:
\* the provider is not added to providers, and the consumer of that session
\* is started next and, its own start succeeding, added to consumers.
C28_OtherFailureSwallowed ==
    \A k \in 1..Len(starts) :
        OtherFailure(k)
        => /\ ~starts[k].provider
           /\ \A n \in 1..Len(providers) : providers[n] # starts[k].name
           /\ k = Len(starts) /\ epc = "raised" => raised = "OpenTraceW"
           /\ k = Len(starts) /\ ~starts[k].consumer
                => \/ epc = "consumer"
                   \/ epc = "raised" /\ raised = "OpenTraceW"
           /\ starts[k].consumer /\ Starting
                => \E n \in 1..Len(consumers) : consumers[n] = starts[k].name
           /\ k < Len(starts) => starts[k].consumer

\* a start without ignore_exists_error whose first provider failed with
\* ERROR_ACCESS_DENIED and which ended with both consumers recorded
C28_Witness ==
    /\ epc = "started"
    /\ ~ignore_exists_error
    /\ Len(starts) = 2
    /\ OtherFailure(1) /\ starts[1].code = "ERROR_ACCESS_DENIED"
    /\ consumers = guids
    /\ providers = <<guids[2]>>
-----------------------------------------------------------------------------
\* the session of iteration k was created by ETW.start and no longer exists:
\* ETW.stop has stopped it with ControlTraceW
StoppedSession(k) == starts[k].created /\ starts[k].name \notin sessions

\* C22: when ETW.stop has stopped a session, the worker thread of that
\* session's consumer has terminated: it is not decoding a record, nor
\* anywhere else in its loop.
C22_JoinedBeforeSessionStopped ==
    \A k \in 1..Len(starts) :
        StoppedSession(k) /\ starts[k].consumer
        => process_thread[starts[k].name] = "done"

\* C27: once ETW.stop has returned, every session ETW.start created with a
\* successful StartTraceW has been stopped, and providers and consumers are
\* empty.
C27_AllCreatedSessionsStopped ==
    epc = "stopped" =>
        /\ \A k \in 1..Len(starts) :
              starts[k].created => starts[k].name \notin sessions
        /\ providers = <<>>
        /\ consumers = <<>>
-----------------------------------------------------------------------------
\* EventConsumer.stop has been called on the consumer of session n and has
\* not returned
StopCalled(n) == epc \in {"close", "join"} /\ Head(consumers) = n

\* EventConsumer.stop has returned for the consumer of session n
StopReturned(n) ==
    /\ \E k \in 1..Len(starts) : starts[k].name = n /\ starts[k].consumer
    /\ \A k \in 1..Len(consumers) : consumers[k] # n

Terminated(n) == process_thread[n] = "done"

\* the worker of session n calls ProcessTrace once more
CallsAgain(n) ==
    process_thread[n] = "loop" /\ process_thread'[n] = "ProcessTrace"

\* the steps of the worker of session n: a check that finds end_capture set
\* leaves the loop, a failed ProcessTrace sets end_capture before the check,
\* and end_capture is never cleared
WorkerStep(n) ==
    /\ process_thread[n] = "check" /\ end_capture[n]
         => process_thread'[n] \in {"check", "done"}
    /\ process_thread[n] = "failed"
         => \/ process_thread'[n] = "failed"
            \/ process_thread'[n] = "check" /\ end_capture'[n]
    /\ end_capture[n] => end_capture'[n]
    /\ Terminated(n) => process_thread'[n] = "done"

\* stop() returns only after the worker has terminated, and the worker,
\* once stop() has been called or ProcessTrace has failed, terminates
StopJoins ==
    /\ [](\A n \in SessionNames : StopReturned(n) => Terminated(n))
    /\ \A n \in SessionNames : StopCalled(n) ~> Terminated(n)
    /\ \A n \in SessionNames : StopCalled(n) ~> StopReturned(n)
    /\ \A n \in SessionNames : (process_thread[n] = "failed") ~> Terminated(n)

\* C23 as stated: after EventConsumer.stop() is called the worker thread
\* eventually leaves its loop and stop() returns only after the thread has
\* terminated; a ProcessTrace failure ends the loop; and the worker never
\* calls ProcessTrace again once end_capture is set.
C23_NeverProcessTraceOnceSet ==
    /\ StopJoins
    /\ [][\A n \in SessionNames : WorkerStep(n)]_vars
    /\ [][\A n \in SessionNames : end_capture[n] => ~CallsAgain(n)]_vars

\* C23, amended: after EventConsumer.stop() is called the worker thread
\* eventually leaves its loop and stop() returns only after the thread has
\* terminated; a ProcessTrace failure sets end_capture and ends the loop; and
\* once a check of the loop finds end_capture set the worker leaves the loop
\* without another ProcessTrace call.
C23_StopTerminatesWorker ==
    /\ StopJoins
    /\ [][\A n \in SessionNames : WorkerStep(n)]_vars

\* stop() has returned for a consumer whose session still exists: its worker
\* left ProcessTrace because the trace was closed
C23_Witness ==
    /\ epc = "stopped"
    /\ \E n \in sessions :
          /\ StopReturned(n) /\ Terminated(n)
          /\ end_capture[n] /\ trace_handle[n] = "closed"
====
